---- MODULE Spec2Model ----
(***************************************************************************)
(* Model of the template-variant expansion engine of xtask                 *)
(* (src/xtask/src/generate.rs): Template::parse, Template::variants,       *)
(* TemplateDiscovery's split_filter / filter_variants and the              *)
(* Generate::run pipeline.                                                 *)
(***************************************************************************)
EXTENDS Integers, Sequences, FiniteSets

\* ------------------------------------------------------------------ bounds
\* A template has at most MaxPlaceholders placeholders of at most MaxChoices
\* choices each, the root descriptor lists at most MaxTemplates sub-templates,
\* the command line holds at most MaxFilter filter tokens, and a scenario (the
\* descriptors on disk, the command line and what the destination root holds
\* before the run) has at most MaxSize parts in all.
MaxTemplates == 2
MaxPlaceholders == 2
MaxChoices == 2
\* A template that Template::variants is called on directly declares at most
\* MaxUnitChoices choices for a placeholder, and with the tokens of the call it
\* has at most MaxUnitSize parts.
MaxUnitChoices == 3
MaxUnitSize == 9
MaxFilter == 2
MaxSize == 8
\* A command string given with --execute has at most MaxCommand characters.
MaxCommand == 4
\* The generated renderer draws at most MaxRenders frames.
MaxRenders == 2

\* Choice strings a descriptor may declare, and a token no descriptor declares.
Values == {"ash", "wgpu"}
\* The choice strings of the templates that Template::variants is called on directly.
UnitValues == {"cargo-gpu", "spirv-builder", "ash", "wgpu"}
Unknown == "unknown"
\* Choice strings that are not one path component: Template::parse takes any
\* string for a choice.
PathValues == {"", "/abs", "a/b"}
\* Keys of the placeholders of a template, in declaration order.
PlaceholderKeys == <<"integration", "api", "target">>
\* Names of the sub-templates the root descriptor may list, in order.
TemplateNames == <<"graphics", "ash-graphics", "compute">>

\* ----------------------------------------------------------------- helpers
Range(s) == {s[i] : i \in DOMAIN s}
Min(a, b) == IF a < b THEN a ELSE b
SetMax(S) == CHOOSE x \in S : \A y \in S : y <= x
SeqOfLen(S, k) == [1..k -> S]
SeqUpTo(S, n) == UNION {SeqOfLen(S, k) : k \in 0..n}

RECURSIVE Product(_)
Product(s) == IF s = <<>> THEN 1 ELSE Head(s) * Product(Tail(s))

\* -------------------------------------------------------------- data model
\* struct Define { key, value }
Define(k, v) == [key |-> k, value |-> v]

\* struct Template { name, template_dir, placeholders }: placeholders is the
\* IndexMap as the sequence of its (key, choices) entries in insertion order.
Template(i, cs) ==
    [name |-> TemplateNames[i],
     template_dir |-> <<"TEMPLATE_PATH", TemplateNames[i]>>,
     placeholders |-> [j \in DOMAIN cs |-> [key |-> PlaceholderKeys[j], choices |-> cs[j]]]]

\* Result<Vec<Vec<Define>>, &str> of Template::variants, and its panic.
Ok(vs) == [tag |-> "Ok", variants |-> vs, token |-> ""]
Err(v) == [tag |-> "Err", variants |-> <<>>, token |-> v]
Panic == [tag |-> "Panic", variants |-> <<>>, token |-> ""]

\* ---------------------------------------------------------- Template::parse
\* Option<T>: None is the empty sequence, Some(x) the sequence of x alone.
Some(x) == <<x>>
IsSome(o) == o # <<>>

\* toml::Value: a string, an integer, an array of values, or a table as the
\* sequence of its (key, value) entries.
String(s) == [type |-> "String", str |-> s, int |-> 0, array |-> <<>>, table |-> <<>>]
Integer(n) == [type |-> "Integer", str |-> "", int |-> n, array |-> <<>>, table |-> <<>>]
Array(items) == [type |-> "Array", str |-> "", int |-> 0, array |-> items, table |-> <<>>]
Table(entries) == [type |-> "Table", str |-> "", int |-> 0, array |-> <<>>, table |-> entries]

\* toml::Value::get, as_array and as_str
get(toml, index) ==
    IF toml.type = "Table" /\ \E e \in DOMAIN toml.table : toml.table[e].key = index
    THEN Some(toml.table[CHOOSE e \in DOMAIN toml.table : toml.table[e].key = index].value)
    ELSE <<>>
as_array(toml) == IF toml.type = "Array" THEN Some(toml.array) ELSE <<>>
as_str(toml) == IF toml.type = "String" THEN Some(toml.str) ELSE <<>>

\* anyhow::Result<Template> of Template::parse: the context of the error names
\* the placeholder p and the index i of the choice it is about.
ParseOk(t) == [tag |-> "Ok", template |-> Some(t), error |-> "", p |-> "", i |-> 0]
ParseErr(e, p_, i_) == [tag |-> "Err", template |-> <<>>, error |-> e, p |-> p_, i |-> i_]

\* The inner collect over choices.iter().enumerate() from index i on: the
\* strings of the array, or the error at the first entry that is no string.
RECURSIVE collect_choices(_, _, _, _)
collect_choices(p, choices, i, acc) ==
    IF i > Len(choices) THEN [tag |-> "Ok", choices |-> acc, i |-> 0]
    ELSE LET c == as_str(choices[i])
         IN IF ~IsSome(c) THEN [tag |-> "Err", choices |-> <<>>, i |-> i - 1]
            ELSE collect_choices(p, choices, i + 1, Append(acc, c[1]))

\* The outer collect over the (p, toml) entries of `placeholders` from entry j
\* on, into the IndexMap, or the first error.
RECURSIVE collect_placeholders(_, _, _)
collect_placeholders(entries, j, acc) ==
    IF j > Len(entries) THEN [tag |-> "Ok", placeholders |-> acc, error |-> "", p |-> "", i |-> 0]
    ELSE LET p == entries[j].key
             toml == entries[j].value
             choices == get(toml, "choices")
             array == IF IsSome(choices) THEN as_array(choices[1]) ELSE <<>>
             strings == IF IsSome(array) THEN collect_choices(p, array[1], 1, <<>>)
                        ELSE [tag |-> "Err", choices |-> <<>>, i |-> 0]
         IN CASE ~IsSome(choices) ->
                   [tag |-> "Err", placeholders |-> <<>>,
                    error |-> "Expected placeholders.p to have choices set", p |-> p, i |-> 0]
              [] ~IsSome(array) ->
                   [tag |-> "Err", placeholders |-> <<>>,
                    error |-> "Expected placeholders.p.choices to be an array", p |-> p, i |-> 0]
              [] strings.tag = "Err" ->
                   [tag |-> "Err", placeholders |-> <<>>,
                    error |-> "Expected placeholders.p.choices[i] to be a string",
                    p |-> p, i |-> strings.i]
              [] OTHER ->
                   collect_placeholders(entries, j + 1,
                       Append(acc, [key |-> p, choices |-> strings.choices]))

\* Template::parse(name, template_dir) on the descriptor file of template_dir:
\* read_to_string and toml::from_str, `placeholders` required, then the collect.
parse(name, template_dir, file) ==
    IF file.read # "Ok" THEN ParseErr(file.read, "", 0)
    ELSE IF ~IsSome(file.config.placeholders) THEN ParseErr("Expected placeholders", "", 0)
    ELSE LET collected == collect_placeholders(file.config.placeholders[1], 1, <<>>)
         IN IF collected.tag = "Err" THEN ParseErr(collected.error, collected.p, collected.i)
            ELSE ParseOk([name |-> name, template_dir |-> template_dir,
                          placeholders |-> collected.placeholders])

\* ------------------------------------------------------- Template::variants
\* Index of the placeholder that the HashMap collected by value_to_placeholder
\* maps value v to: a later insert overwrites an earlier one, so the last
\* placeholder (in declaration order) that declares v wins. 0 when none does.
value_to_placeholder(t, v) ==
    LET hits == {j \in DOMAIN t.placeholders : v \in Range(t.placeholders[j].choices)}
    IN IF hits = {} THEN 0 ELSE SetMax(hits)

\* push_filter that assigns in place of pushing: a later token of a placeholder
\* replaces the earlier ones.
RECURSIVE push_filter_replacing(_, _, _)
push_filter_replacing(t, f, variant_map) ==
    IF f = <<>> THEN [tag |-> "Ok", map |-> variant_map, token |-> ""]
    ELSE LET v == Head(f)
             key == value_to_placeholder(t, v)
         IN IF key = 0 THEN [tag |-> "Err", map |-> variant_map, token |-> v]
            ELSE push_filter_replacing(t, Tail(f), [variant_map EXCEPT ![key] = <<v>>])

\* The loop `for v in filter`: push each token into its placeholder's Vec, or
\* return Err(v) at the first token value_to_key does not hold.
RECURSIVE push_filter(_, _, _)
push_filter(t, f, variant_map) ==
    IF f = <<>> THEN [tag |-> "Ok", map |-> variant_map, token |-> ""]
    ELSE LET v == Head(f)
             key == value_to_placeholder(t, v)
         IN IF key = 0 THEN [tag |-> "Err", map |-> variant_map, token |-> v]
            ELSE push_filter(t, Tail(f), [variant_map EXCEPT ![key] = Append(@, v)])

\* extend_variants with the new Define put in front of the variant.
RECURSIVE extend_variants_front(_, _, _)
extend_variants_front(variants_, p, values) ==
    IF values = <<>> THEN <<>>
    ELSE [i \in DOMAIN variants_ |-> <<Define(p, Head(values))>> \o variants_[i]]
         \o extend_variants_front(variants_, p, Tail(values))

\* values.into_iter().flat_map(|add| variants.iter().map(|v| v ++ [Define{p, add}]))
RECURSIVE extend_variants(_, _, _)
extend_variants(variants_, p, values) ==
    IF values = <<>> THEN <<>>
    ELSE [i \in DOMAIN variants_ |-> Append(variants_[i], Define(p, Head(values)))]
         \o extend_variants(variants_, p, Tail(values))

\* candidate_values that leaves out the last declared choice.
candidate_values_short(t, variant_map, j) ==
    IF variant_map[j] = <<>>
    THEN SubSeq(t.placeholders[j].choices, 1, Len(t.placeholders[j].choices) - 1)
    ELSE variant_map[j]

\* The values a placeholder takes: the pushed tokens, or all its choices.
candidate_values(t, variant_map, j) ==
    IF variant_map[j] = <<>> THEN t.placeholders[j].choices ELSE variant_map[j]

\* The loop `for (p, values) in variant_map` from placeholder j on.
RECURSIVE cross_product(_, _, _, _)
cross_product(t, variant_map, j, variants_) ==
    IF j > Len(t.placeholders) THEN Ok(variants_)
    ELSE LET values == candidate_values(t, variant_map, j)
         IN IF values = <<>> THEN Panic
            ELSE cross_product(t, variant_map, j + 1,
                               extend_variants(variants_, t.placeholders[j].key, values))

\* variants whose cross product starts from no variant, Vec::new(), in place of
\* the one empty variant.
variants_unseeded(t, f) ==
    LET pushed == push_filter(t, f, [j \in DOMAIN t.placeholders |-> <<>>])
    IN IF pushed.tag = "Err" THEN Err(pushed.token)
       ELSE cross_product(t, pushed.map, 1, <<>>)

variants(t, f) ==
    LET pushed == push_filter(t, f, [j \in DOMAIN t.placeholders |-> <<>>])
    IN IF pushed.tag = "Err" THEN Err(pushed.token)
       ELSE cross_product(t, pushed.map, 1, << <<>> >>)

\* ------------------------------------------------------- TemplateDiscovery
\* split_filter as a filter: a token that is no template's name is kept only when
\* some template declares it as a choice.
RECURSIVE split_filter_dropping(_, _, _)
split_filter_dropping(ts, f, out) ==
    IF f = <<>> THEN out
    ELSE IF \E i \in DOMAIN ts : ts[i].name = Head(f)
         THEN split_filter_dropping(ts, Tail(f),
                  [out EXCEPT !.template_filters = @ \cup {Head(f)}])
         ELSE IF \E i \in DOMAIN ts : \E j \in DOMAIN ts[i].placeholders :
                     Head(f) \in Range(ts[i].placeholders[j].choices)
              THEN split_filter_dropping(ts, Tail(f),
                       [out EXCEPT !.placeholder_filters = Append(@, Head(f))])
              ELSE split_filter_dropping(ts, Tail(f), out)

\* struct Filters { template_filters: HashSet, placeholder_filters: Vec }
RECURSIVE split_filter(_, _, _)
split_filter(ts, f, out) ==
    IF f = <<>> THEN out
    ELSE LET filter_ == Head(f)
         IN IF \E i \in DOMAIN ts : ts[i].name = filter_
            THEN split_filter(ts, Tail(f),
                     [out EXCEPT !.template_filters = @ \cup {filter_}])
            ELSE split_filter(ts, Tail(f),
                     [out EXCEPT !.placeholder_filters = Append(@, filter_)])

FiltersDefault == [template_filters |-> {}, placeholder_filters |-> <<>>]

\* .filter(|template| template_filters.is_empty() || template_filters.contains(name))
in_scope(ts, fs) ==
    SelectSeq(ts, LAMBDA t : fs.template_filters = {} \/ t.name \in fs.template_filters)

\* The flat_map closure over the in-scope templates from index i on, threading
\* has_unknown_filter, unknown_filter and the collected (template, variant) pairs.
\* A panic inside Template::variants unwinds through the collect.
RECURSIVE collect_variants(_, _, _, _)
collect_variants(scope, pf, i, acc) ==
    IF i > Len(scope) THEN acc
    ELSE LET template == scope[i]
             variants_result == variants(template, pf)
         IN CASE variants_result.tag = "Panic" -> [acc EXCEPT !.panicked = TRUE]
              [] variants_result.tag = "Ok" ->
                   collect_variants(scope, pf, i + 1,
                       [acc EXCEPT !.has_unknown_filter = FALSE,
                                   !.variants = @ \o
                                       [k \in DOMAIN variants_result.variants |->
                                           <<template, variants_result.variants[k]>>]])
              [] OTHER ->
                   collect_variants(scope, pf, i + 1,
                       [acc EXCEPT !.unknown_filter = <<variants_result.token>>])

\* anyhow::Result<Vec<(&Template, Vec<Define>)>>, and the panic of variants.
filter_variants(ts, f) ==
    LET filters_ == split_filter(ts, f, FiltersDefault)
        got == collect_variants(in_scope(ts, filters_), filters_.placeholder_filters, 1,
                   [has_unknown_filter |-> TRUE, unknown_filter |-> <<>>,
                    variants |-> <<>>, panicked |-> FALSE])
    IN CASE got.panicked ->
              [tag |-> "Panic", variants |-> <<>>, error |-> "", token |-> ""]
         [] got.has_unknown_filter /\ got.unknown_filter # <<>> ->
              [tag |-> "Err", variants |-> <<>>, error |-> "Unknown filter",
               token |-> got.unknown_filter[1]]
         [] got.has_unknown_filter ->
              [tag |-> "Err", variants |-> <<>>, error |-> "No templates exist?",
               token |-> ""]
         [] OTHER ->
              [tag |-> "Ok", variants |-> got.variants, error |-> "", token |-> ""]

\* ---------------------------------------------------------------- Generate
\* Option<String> / Option<PathBuf> of the command line.
None == "None"
\* env!("CARGO_MANIFEST_DIR")/../generated, and a directory given with --out.
DefaultOut == <<"xtask", "..", "generated">>
GivenOut == <<"out">>
\* The command given with --execute.
Command == "cargo check"

\* A string as the sequence of its characters; the characters a command holds.
Chars == {"c", " ", "\t"}

\* split that takes every white-space character for the pattern.
RECURSIVE split_whitespace(_, _, _, _, _)
split_whitespace(s, pat, i, piece, pieces) ==
    IF i > Len(s) THEN Append(pieces, piece)
    ELSE IF s[i] \in {pat, "\t"}
         THEN split_whitespace(s, pat, i + 1, <<>>, Append(pieces, piece))
         ELSE split_whitespace(s, pat, i + 1, Append(piece, s[i]), pieces)

\* str::split(pat) from character i on: the pieces between the occurrences of
\* the one-character pattern, the empty pieces included.
RECURSIVE split(_, _, _, _, _)
split(s, pat, i, piece, pieces) ==
    IF i > Len(s) THEN Append(pieces, piece)
    ELSE IF s[i] = pat
         THEN split(s, pat, i + 1, <<>>, Append(pieces, piece))
         ELSE split(s, pat, i + 1, Append(piece, s[i]), pieces)

\* Path::components of the string s from character i on: the pieces between
\* the separators, where an empty piece (a leading, a doubled or a trailing
\* separator) and a "." piece are no component and ".." is kept as it is.
RECURSIVE components(_, _, _, _)
components(s, i, piece, acc) ==
    LET kept == IF piece \in {"", "."} THEN acc ELSE Append(acc, piece)
    IN IF i > Len(s) THEN kept
       ELSE IF SubSeq(s, i, i) = "/"
            THEN components(s, i + 1, "", kept)
            ELSE components(s, i + 1, piece \o SubSeq(s, i, i), acc)

\* The components of the strings that the scenarios push, computed once.
Pushed ==
    Values \cup UnitValues \cup PathValues \cup {"stale", "target"}
        \cup {TemplateNames[i] : i \in DOMAIN TemplateNames}
components_of == [s \in Pushed |-> components(s, 1, "", <<>>)]

\* Path::has_root: the string starts with the separator.
has_root(s) == Len(s) > 0 /\ SubSeq(s, 1, 1) = "/"

\* Path::join / PathBuf::push, a path being the sequence of its components
\* ("/" the root component): an absolute string replaces the path, any other
\* string adds its components, which may be none or several.
join(path, s) ==
    LET pushed == IF s \in Pushed THEN components_of[s] ELSE components(s, 1, "", <<>>)
    IN IF has_root(s) THEN <<"/">> \o pushed
       ELSE IF path = <<>> /\ (s = "." \/ (Len(s) > 1 /\ SubSeq(s, 1, 2) = "./"))
            THEN <<".">> \o pushed
            ELSE path \o pushed

\* out_dir of Generate::generate: out_base_dir, then one push per Define value.
RECURSIVE push_values(_, _)
push_values(out_dir, variant) ==
    IF variant = <<>> THEN out_dir
    ELSE push_values(join(out_dir, Head(variant).value), Tail(variant))

\* to_string that writes the value alone.
to_string_value(d) == d.value

\* impl Display for Define: write!(f, "{}={}", self.key, self.value)
to_string(d) == d.key \o "=" \o d.value

\* GenerateArgs handed to cargo_generate::generate.
generate_args(out_base_dir_, template, variant) ==
    [template_path |-> template.template_dir,
     init |-> TRUE,
     overwrite |-> TRUE,
     silent |-> TRUE,
     define |-> [i \in DOMAIN variant |-> to_string(variant[i])],
     name |-> "name-is-ignored",
     destination |-> push_values(out_base_dir_, variant)]

\* --------------------------------------------------------------- scenarios
\* The descriptors on disk: per template the choice lists of its placeholders.
RECURSIVE SumLen(_)
SumLen(cs) == IF cs = <<>> THEN 0 ELSE Len(Head(cs)) + SumLen(Tail(cs))
TemplateSize(cs) == 1 + Len(cs) + SumLen(cs)
RECURSIVE DiscoverySize(_)
DiscoverySize(d) == IF d = <<>> THEN 0 ELSE TemplateSize(Head(d)) + DiscoverySize(Tail(d))

\* The choice lists of n placeholders, over the values V, of w choices at most.
RECURSIVE ChoiceLists(_, _, _)
ChoiceLists(V, n, w) ==
    IF n = 0 THEN {<<>>}
    ELSE UNION {{<<c>> \o r : c \in SeqOfLen(V, k), r \in ChoiceLists(V, n - 1, w - k)} :
                k \in 0..Min(w, MaxChoices)}
TemplateBodies(V, w) ==
    UNION {ChoiceLists(V, n, w - 1 - n) : n \in 0..Min(MaxPlaceholders, w - 1)}
RECURSIVE DiscoveryBodies(_, _)
DiscoveryBodies(t, w) ==
    IF t = 0 THEN {<<>>}
    ELSE UNION {{<<b>> \o r : r \in DiscoveryBodies(t - 1, w - TemplateSize(b))} :
                b \in TemplateBodies(Values, w)}
\* The descriptors of one template with one placeholder that declares choice
\* strings that are not one path component.
PathDiscoveries ==
    {<< <<c>> >> : c \in UNION {SeqOfLen(PathValues \cup {"ash"}, k) : k \in 1..MaxChoices}}
Discoveries == UNION {DiscoveryBodies(t, MaxSize) : t \in 0..MaxTemplates} \cup PathDiscoveries
\* The descriptors of w parts at most, for every w.
DiscoveriesUpTo == [w \in 0..MaxSize |-> {d \in Discoveries : DiscoverySize(d) <= w}]

Tokens == Values \cup {Unknown} \cup {TemplateNames[i] : i \in 1..MaxTemplates}
\* The parts of a command line: the tokens, the flags, and of a command its
\* program and its argument.
ArgsSize(f, c, x, o) ==
    Len(f) + (IF c THEN 1 ELSE 0) + (IF x = None THEN 0 ELSE 2) + (IF o = None THEN 0 ELSE 1)

\* ------------------------------------------------------------------- state
VARIABLES
    filter,        \* Generate::filter, the raw filter tokens
    clean,         \* Generate::clean
    execute,       \* Generate::execute
    out,           \* Generate::out
    env,           \* the process environment: CARGO_NAME, CARGO_EMAIL
    fs,            \* the directories that exist at the paths the run names: the
                   \* destination root and the directories down to the output
                   \* directories (what is below one is told by `written`)
    files,         \* the paths among these at which a regular file is
    written,       \* the directories that hold files or directories, whatever
                   \* they are, that cargo_generate, a command or an earlier run
                   \* wrote below them
    out_base,      \* run's out_base_dir
    templates,     \* TemplateDiscovery::templates
    filters,       \* the Filters computed by split_filter
    run_variants,  \* run's `variants`: the (template, variant) pairs
    calls,         \* the GenerateArgs of every cargo_generate::generate call
    results,       \* run's `results`: the out_dir of every generated pair
    spawned,       \* execute: the (directory, exit status) of every command run
    success,       \* execute's `success`
    vres,          \* the value returned by a direct call of Template::variants
    config_file,   \* the descriptor file that a direct call of Template::parse reads
    parsed,        \* the value returned by a direct call of Template::parse
    cmd,           \* execute's `exec` and `args`, the pieces of the command string
    active,        \* MySwapchainManager::active
    should_recreate, \* MySwapchainManager::should_recreate
    window_size,   \* what window.inner_size() returns
    renders,       \* the number of calls of MySwapchainManager::render so far
    attempts,      \* render: the turns of its loop so far, in the call under way
    callbacks,     \* render: the number of calls of `f`, in the call under way
    render_result, \* render: what the last call returned
    pc,            \* the statement the program is at
    error          \* the error the run returned, or NoError

vars == <<filter, clean, execute, out, env, fs, files, written, out_base, templates, filters,
          run_variants, calls, results, spawned, success, vres, config_file, parsed,
          cmd, active, should_recreate, window_size, renders, attempts, callbacks,
          render_result, pc, error>>
parse_vars == <<config_file, parsed>>
command_vars == <<cmd>>
swapchain_vars == <<active, should_recreate, window_size, renders, attempts, callbacks,
                    render_result>>

NoError == [kind |-> "", token |-> ""]
Error(k, tok) == [kind |-> k, token |-> tok]
NoResult == [tag |-> "", variants |-> <<>>, token |-> ""]
NoFile == [read |-> "", config |-> [placeholders |-> <<>>]]
NoTemplate == [tag |-> "", template |-> <<>>, error |-> "", p |-> "", i |-> 0]
NoCommand == [exec |-> <<>>, args |-> <<>>]
\* The variables of the generated renderer, where no renderer runs.
NoSwapchain ==
    /\ active = <<>>
    /\ should_recreate = TRUE
    /\ window_size = <<0, 0>>
    /\ renders = 0
    /\ attempts = <<>>
    /\ callbacks = 0
    /\ render_result = ""

Prefixes(path, from) == {SubSeq(path, 1, n) : n \in from..Len(path)}
IsUnder(path, root) == Len(path) >= Len(root) /\ SubSeq(path, 1, Len(root)) = root
OutDir == IF out = None THEN DefaultOut ELSE out

\* std::fs::create_dir_all(path) returns an Err: a regular file is at the path
\* or at one of its ancestors, where no directory can be made.
create_dir_all_fails(path, files_) == \E n \in 1..Len(path) : SubSeq(path, 1, n) \in files_

\* The directories there are once std::fs::create_dir_all(path) has returned
\* Ok: the path and its missing ancestors. Of a path under `base` these are
\* the ancestors from `base` on, the ancestors of `base` being there already.
create_dir_all(dirs, path, base) ==
    dirs \cup Prefixes(path, IF IsUnder(path, base) THEN Len(base) ELSE 1)

\* std::fs::create_dir_all(path) may return an Err: the path is not there and
\* is below a directory that holds what a collaborator wrote, a regular file on
\* the way to the path perhaps.
create_dir_all_may_fail(dirs, path, written_) ==
    path \notin dirs /\ \E d \in written_ : d # path /\ IsUnder(path, d)

\* What a collaborator that works in the directory `dir` leaves there: it
\* wrote files or directories below it, or it wrote nothing.
Writes(dir) == {{}, {dir}}

\* What is at the destination root before the run: nothing, a regular file,
\* an earlier run's output, or that with a regular file where this run puts
\* the directory of a template or of a variant.
Roots ==
    {[dirs |-> {}, files |-> {}, written |-> {}],
     [dirs |-> {}, files |-> {OutDir}, written |-> {}],
     [dirs |-> {OutDir, join(OutDir, "stale")}, files |-> {},
      written |-> {join(OutDir, "stale")}],
     [dirs |-> {OutDir, join(OutDir, "stale")},
      files |-> {join(OutDir, TemplateNames[1])},
      written |-> {join(OutDir, "stale")}],
     [dirs |-> {OutDir, join(OutDir, "stale"), join(OutDir, TemplateNames[1])},
      files |-> {join(join(OutDir, TemplateNames[1]), "wgpu")},
      written |-> {join(OutDir, "stale")}]}

\* The state a run starts in: the parsed command line, the ambient environment
\* and the destination root.
Init ==
    /\ filter \in SeqUpTo(Tokens, MaxFilter)
    /\ clean \in BOOLEAN
    /\ execute \in {None, Command}
    /\ out \in {None, GivenOut}
    /\ env = [CARGO_NAME |-> "user", CARGO_EMAIL |-> "user"]
    /\ \E root \in Roots :
          fs = root.dirs /\ files = root.files /\ written = root.written
    /\ out_base = <<>>
    /\ templates = <<>>
    /\ filters = FiltersDefault
    /\ run_variants = <<>>
    /\ calls = <<>>
    /\ results = <<>>
    /\ spawned = <<>>
    /\ success = TRUE
    /\ vres = NoResult
    /\ config_file = NoFile
    /\ parsed = NoTemplate
    /\ cmd = NoCommand
    /\ NoSwapchain
    /\ pc = "normalize_env"
    /\ error = NoError

\* normalize_env that sets CARGO_NAME and leaves CARGO_EMAIL as it was.
normalize_env_name ==
    /\ pc = "normalize_env"
    /\ env' = [env EXCEPT !.CARGO_NAME = "generated"]
    /\ pc' = "out_base_dir"
    /\ UNCHANGED <<filter, clean, execute, out, fs, files, written, out_base, templates, filters,
                   run_variants, calls, results, spawned, success, vres, error>>
    /\ UNCHANGED <<parse_vars, command_vars, swapchain_vars>>

\* Generate::normalize_env
normalize_env ==
    /\ pc = "normalize_env"
    /\ env' = [CARGO_NAME |-> "generated", CARGO_EMAIL |-> "generated"]
    /\ pc' = "out_base_dir"
    /\ UNCHANGED <<filter, clean, execute, out, fs, files, written, out_base, templates, filters,
                   run_variants, calls, results, spawned, success, vres, error>>
    /\ UNCHANGED <<parse_vars, command_vars, swapchain_vars>>

\* Generate::out_base_dir: remove_dir_all fails where no directory is (nothing
\* or a regular file is there) and removes everything under the root otherwise;
\* create_dir_all fails on a root that is a regular file.
out_base_dir ==
    /\ pc = "out_base_dir"
    /\ IF clean /\ OutDir \notin fs
       THEN /\ pc' = "done"
            /\ error' = Error("io", "remove_dir_all")
            /\ UNCHANGED <<fs, files, written, out_base>>
       ELSE LET dirs == IF clean THEN {d \in fs : ~IsUnder(d, OutDir)} ELSE fs
                files_ == IF clean THEN {f \in files : ~IsUnder(f, OutDir)} ELSE files
            IN /\ files' = files_
               /\ written' = IF clean THEN {d \in written : ~IsUnder(d, OutDir)}
                                       ELSE written
               /\ IF create_dir_all_fails(OutDir, files_)
                  THEN /\ fs' = dirs
                       /\ pc' = "done"
                       /\ error' = Error("io", "create_dir_all")
                       /\ UNCHANGED out_base
                  ELSE /\ fs' = create_dir_all(dirs, OutDir, OutDir)
                       /\ out_base' = OutDir
                       /\ pc' = "discover"
                       /\ UNCHANGED error
    /\ UNCHANGED <<filter, clean, execute, out, env, templates, filters,
                   run_variants, calls, results, spawned, success, vres>>
    /\ UNCHANGED <<parse_vars, command_vars, swapchain_vars>>

\* TemplateDiscovery::discover: one Template::parse per listed sub-template, or
\* the error of a descriptor that cannot be read or parsed.
discover ==
    /\ pc = "discover"
    /\ \/ \E d \in DiscoveriesUpTo[MaxSize - ArgsSize(filter, clean, execute, out)
                                          - Cardinality(files) - Cardinality(written)] :
            /\ templates' = [i \in DOMAIN d |-> Template(i, d[i])]
            /\ pc' = "filter_variants"
            /\ UNCHANGED error
       \/ /\ pc' = "done"
          /\ error' = Error("config", "")
          /\ UNCHANGED templates
    /\ UNCHANGED <<filter, clean, execute, out, env, fs, files, written, out_base, filters,
                   run_variants, calls, results, spawned, success, vres>>
    /\ UNCHANGED <<parse_vars, command_vars, swapchain_vars>>

\* The call of filter_variants that keeps going: a token that some in-scope
\* template does not resolve is recorded as the run's error, and the pairs of
\* the templates that do resolve are generated all the same.
call_filter_variants_deferred ==
    /\ pc = "filter_variants"
    /\ LET filters_ == split_filter(templates, filter, FiltersDefault)
           got == collect_variants(in_scope(templates, filters_),
                      filters_.placeholder_filters, 1,
                      [has_unknown_filter |-> TRUE, unknown_filter |-> <<>>,
                       variants |-> <<>>, panicked |-> FALSE])
       IN /\ filters' = filters_
          /\ run_variants' = got.variants
          /\ pc' = IF got.panicked THEN "panicked" ELSE "generate"
          /\ error' = IF got.unknown_filter # <<>>
                      THEN Error("Unknown filter", got.unknown_filter[1])
                      ELSE error
    /\ UNCHANGED <<filter, clean, execute, out, env, fs, files, written, out_base, templates,
                   calls, results, spawned, success, vres>>
    /\ UNCHANGED <<parse_vars, command_vars, swapchain_vars>>

\* The call of filter_variants without its `?`: an Err ends the run and is dropped.
call_filter_variants_dropped ==
    /\ pc = "filter_variants"
    /\ LET r == filter_variants(templates, filter)
       IN /\ filters' = split_filter(templates, filter, FiltersDefault)
          /\ run_variants' = r.variants
          /\ pc' = CASE r.tag = "Panic" -> "panicked"
                     [] r.tag = "Err" -> "done"
                     [] OTHER -> "generate"
          /\ error' = error
    /\ UNCHANGED <<filter, clean, execute, out, env, fs, files, written, out_base, templates,
                   calls, results, spawned, success, vres>>
    /\ UNCHANGED <<parse_vars, command_vars, swapchain_vars>>

\* run: discovery.filter_variants(self.filter.iter())?
call_filter_variants ==
    /\ pc = "filter_variants"
    /\ LET r == filter_variants(templates, filter)
       IN /\ filters' = split_filter(templates, filter, FiltersDefault)
          /\ run_variants' = r.variants
          /\ pc' = CASE r.tag = "Panic" -> "panicked"
                     [] r.tag = "Err" -> "done"
                     [] OTHER -> "generate"
          /\ error' = IF r.tag = "Err" THEN Error(r.error, r.token) ELSE error
    /\ UNCHANGED <<filter, clean, execute, out, env, fs, files, written, out_base, templates,
                   calls, results, spawned, success, vres>>
    /\ UNCHANGED <<parse_vars, command_vars, swapchain_vars>>

\* generate whose failure does not end the run: the pairs that were generated
\* go on to Generate::execute.
generate_unchecked ==
    /\ pc = "generate"
    /\ Len(results) < Len(run_variants)
    /\ LET template == run_variants[Len(results) + 1][1]
           variant == run_variants[Len(results) + 1][2]
           args == generate_args(join(out_base, template.name), template, variant)
       IN \/ /\ \/ create_dir_all_fails(args.destination, files)
                \/ create_dir_all_may_fail(fs, args.destination, written)
             /\ pc' = "execute"
             /\ error' = Error("io", "create_dir_all")
             /\ UNCHANGED <<fs, written, calls, results>>
          \/ /\ ~create_dir_all_fails(args.destination, files)
             /\ fs' = create_dir_all(fs, args.destination, out_base)
             /\ calls' = Append(calls, args)
             /\ \E wrote \in Writes(args.destination) :
                    /\ written' = written \cup wrote
                    /\ \/ /\ results' = Append(results, args.destination)
                          /\ UNCHANGED <<pc, error>>
                       \/ /\ pc' = "execute"
                          /\ error' = Error("cargo_generate", "")
                          /\ UNCHANGED results
    /\ UNCHANGED <<filter, clean, execute, out, env, files, out_base, templates, filters,
                   run_variants, spawned, success, vres>>
    /\ UNCHANGED <<parse_vars, command_vars, swapchain_vars>>

\* Generate::generate for the next pair of `variants`: create_dir_all, whose
\* Err returns before the call, then cargo_generate::generate, which writes the
\* template's files and directories below the destination and succeeds or
\* fails; an Err ends the collect.
generate ==
    /\ pc = "generate"
    /\ Len(results) < Len(run_variants)
    /\ LET template == run_variants[Len(results) + 1][1]
           variant == run_variants[Len(results) + 1][2]
           args == generate_args(join(out_base, template.name), template, variant)
       IN \/ /\ \/ create_dir_all_fails(args.destination, files)
                \/ create_dir_all_may_fail(fs, args.destination, written)
             /\ pc' = "done"
             /\ error' = Error("io", "create_dir_all")
             /\ UNCHANGED <<fs, written, calls, results>>
          \/ /\ ~create_dir_all_fails(args.destination, files)
             /\ fs' = create_dir_all(fs, args.destination, out_base)
             /\ calls' = Append(calls, args)
             /\ \E wrote \in Writes(args.destination) :
                    /\ written' = written \cup wrote
                    /\ \/ /\ results' = Append(results, args.destination)
                          /\ UNCHANGED <<pc, error>>
                       \/ /\ pc' = "done"
                          /\ error' = Error("cargo_generate", "")
                          /\ UNCHANGED results
    /\ UNCHANGED <<filter, clean, execute, out, env, files, out_base, templates, filters,
                   run_variants, spawned, success, vres>>
    /\ UNCHANGED <<parse_vars, command_vars, swapchain_vars>>

\* collect_results that does not wait for the last pair: the run goes on to
\* Generate::execute as soon as one pair is generated.
collect_results_early ==
    /\ pc = "generate"
    /\ Len(results) = Len(run_variants) \/ results # <<>>
    /\ IF results = <<>>
       THEN /\ pc' = "done"
            /\ error' = Error("Nothing generated, all variants filtered out", "")
       ELSE /\ pc' = "execute"
            /\ UNCHANGED error
    /\ UNCHANGED <<filter, clean, execute, out, env, fs, files, written, out_base, templates, filters,
                   run_variants, calls, results, spawned, success, vres>>
    /\ UNCHANGED <<parse_vars, command_vars, swapchain_vars>>

\* run, after the collect: `if results.is_empty() { bail!(..) }`
collect_results ==
    /\ pc = "generate"
    /\ Len(results) = Len(run_variants)
    /\ IF results = <<>>
       THEN /\ pc' = "done"
            /\ error' = Error("Nothing generated, all variants filtered out", "")
       ELSE /\ pc' = "execute"
            /\ UNCHANGED error
    /\ UNCHANGED <<filter, clean, execute, out, env, fs, files, written, out_base, templates, filters,
                   run_variants, calls, results, spawned, success, vres>>
    /\ UNCHANGED <<parse_vars, command_vars, swapchain_vars>>

\* Generate::execute without --execute: Ok(()).
execute_none ==
    /\ pc = "execute"
    /\ execute = None
    /\ pc' = "done"
    /\ UNCHANGED <<filter, clean, execute, out, env, fs, files, written, out_base, templates, filters,
                   run_variants, calls, results, spawned, success, vres, error>>
    /\ UNCHANGED <<parse_vars, command_vars, swapchain_vars>>

\* Generate::execute, one turn of `for out_dir in out_dirs`, cmd.spawn()?: the
\* child runs in out_dir, or the Err returns at once.
spawn ==
    /\ pc = "execute"
    /\ execute # None
    /\ Len(spawned) < Len(results)
    /\ \/ /\ pc' = "wait"
          /\ UNCHANGED error
       \/ /\ pc' = "done"
          /\ error' = Error("spawn", "")
    /\ UNCHANGED <<filter, clean, execute, out, env, fs, files, written, out_base, templates, filters,
                   run_variants, calls, results, spawned, success, vres>>
    /\ UNCHANGED <<parse_vars, command_vars, swapchain_vars>>

\* Generate::execute, the same turn, .wait().context(..)?: execute blocks while
\* the child runs, which may write files and directories below its working
\* directory; the exit status is folded into `success`, an Err returns at once.
wait ==
    /\ pc = "wait"
    /\ LET out_dir == results[Len(spawned) + 1]
       IN \E wrote \in Writes(out_dir) :
              /\ written' = written \cup wrote
              /\ \/ \E status \in BOOLEAN :
                      /\ spawned' = Append(spawned, [current_dir |-> out_dir,
                                                     status |-> status])
                      /\ success' = (success /\ status)
                      /\ pc' = "execute"
                      /\ UNCHANGED error
                 \/ /\ pc' = "done"
                    /\ error' = Error("Process spawning failed", "")
                    /\ UNCHANGED <<spawned, success>>
    /\ UNCHANGED <<filter, clean, execute, out, env, fs, files, out_base, templates, filters,
                   run_variants, calls, results, vres>>
    /\ UNCHANGED <<parse_vars, command_vars, swapchain_vars>>

\* execute_end without the check of `success`: Ok(()) whatever the exit statuses.
execute_end_unchecked ==
    /\ pc = "execute"
    /\ execute # None
    /\ Len(spawned) = Len(results)
    /\ pc' = "done"
    /\ UNCHANGED <<filter, clean, execute, out, env, fs, files, written, out_base, templates, filters,
                   run_variants, calls, results, spawned, success, vres, error>>
    /\ UNCHANGED <<parse_vars, command_vars, swapchain_vars>>

\* Generate::execute, after the loop: `if !success { bail!(..) }`
execute_end ==
    /\ pc = "execute"
    /\ execute # None
    /\ Len(spawned) = Len(results)
    /\ pc' = "done"
    /\ error' = IF success THEN error
                ELSE Error("Some processes spawned by --execute failed", "")
    /\ UNCHANGED <<filter, clean, execute, out, env, fs, files, written, out_base, templates, filters,
                   run_variants, calls, results, spawned, success, vres>>
    /\ UNCHANGED <<parse_vars, command_vars, swapchain_vars>>

\* Generate::run
Next ==
    \/ normalize_env
    \/ out_base_dir
    \/ discover
    \/ call_filter_variants
    \/ generate
    \/ collect_results
    \/ execute_none
    \/ spawn
    \/ wait
    \/ execute_end

Spec == Init /\ [][Next]_vars

\* ------------------------------------------- Template::variants on its own
\* A direct call of Template::variants (as tests::variants_* make it) on one
\* template and one token list.
\* The numbers of choices of its placeholders, and the choice lists of those
\* lengths that the choices, written one after the other, make.
RECURSIVE Sum(_)
Sum(s) == IF s = <<>> THEN 0 ELSE Head(s) + Sum(Tail(s))
RECURSIVE Cut(_, _)
Cut(flat, lens) ==
    IF lens = <<>> THEN <<>>
    ELSE <<SubSeq(flat, 1, Head(lens))>>
            \o Cut(SubSeq(flat, Head(lens) + 1, Len(flat)), Tail(lens))
UnitShapes ==
    {lens \in SeqUpTo(0..MaxUnitChoices, MaxPlaceholders) :
        1 + Len(lens) + Sum(lens) <= MaxUnitSize}
UnitTokens == UnitValues \cup {Unknown}

InitVariants ==
    /\ \E lens \in UnitShapes : \E flat \in SeqOfLen(UnitValues, Sum(lens)) :
            templates = <<Template(1, Cut(flat, lens))>>
    /\ filter \in SeqUpTo(UnitTokens,
                          Min(MaxFilter, MaxUnitSize - TemplateSize(
                              [j \in DOMAIN templates[1].placeholders |->
                                  templates[1].placeholders[j].choices])))
    /\ clean = FALSE
    /\ execute = None
    /\ out = None
    /\ env = [CARGO_NAME |-> "user", CARGO_EMAIL |-> "user"]
    /\ fs = {}
    /\ files = {}
    /\ written = {}
    /\ out_base = <<>>
    /\ filters = FiltersDefault
    /\ run_variants = <<>>
    /\ calls = <<>>
    /\ results = <<>>
    /\ spawned = <<>>
    /\ success = TRUE
    /\ vres = NoResult
    /\ config_file = NoFile
    /\ parsed = NoTemplate
    /\ cmd = NoCommand
    /\ NoSwapchain
    /\ pc = "variants"
    /\ error = NoError

call_variants ==
    /\ pc = "variants"
    /\ vres' = variants(templates[1], filter)
    /\ pc' = "returned"
    /\ UNCHANGED <<filter, clean, execute, out, env, fs, files, written, out_base, templates, filters,
                   run_variants, calls, results, spawned, success, error>>
    /\ UNCHANGED <<parse_vars, command_vars, swapchain_vars>>

NextVariants == call_variants

SpecVariants == InitVariants /\ [][NextVariants]_vars

\* --------------------------------------------------- Template::parse on its own
\* A direct call of Template::parse on one descriptor file: a file that cannot
\* be read or is no TOML, a Config without `placeholders`, or a Config whose
\* `placeholders` table gives each placeholder a value of any of these shapes.
TomlItems == {String(v) : v \in Values} \cup {Integer(1)}
Slots ==
    {String("ash"), Table(<<>>), Table(<<[key |-> "choices", value |-> String("ash")]>>)}
    \cup {Table(<<[key |-> "prompt", value |-> String("ash")],
                  [key |-> "choices", value |-> Array(items)]>>) :
             items \in SeqUpTo(TomlItems, MaxChoices)}
Files ==
    {[read |-> r, config |-> [placeholders |-> <<>>]] : r \in {"io", "toml", "Ok"}}
    \cup {[read |-> "Ok",
           config |-> [placeholders |->
               Some([j \in DOMAIN slots |-> [key |-> PlaceholderKeys[j], value |-> slots[j]]])]] :
             slots \in SeqUpTo(Slots, MaxPlaceholders)}

InitParse ==
    /\ config_file \in Files
    /\ parsed = NoTemplate
    /\ cmd = NoCommand
    /\ NoSwapchain
    /\ filter \in SeqUpTo(Values \cup {Unknown}, MaxFilter)
    /\ templates = <<>>
    /\ clean = FALSE
    /\ execute = None
    /\ out = None
    /\ env = [CARGO_NAME |-> "user", CARGO_EMAIL |-> "user"]
    /\ fs = {}
    /\ files = {}
    /\ written = {}
    /\ out_base = <<>>
    /\ filters = FiltersDefault
    /\ run_variants = <<>>
    /\ calls = <<>>
    /\ results = <<>>
    /\ spawned = <<>>
    /\ success = TRUE
    /\ vres = NoResult
    /\ pc = "parse"
    /\ error = NoError

\* discover_at: Template::parse(name, base_dir.join(&name)) for the first
\* sub-template.
call_parse ==
    /\ pc = "parse"
    /\ parsed' = parse(TemplateNames[1], <<"TEMPLATE_PATH", TemplateNames[1]>>, config_file)
    /\ pc' = "parsed"
    /\ UNCHANGED <<filter, clean, execute, out, env, fs, files, written, out_base, templates, filters,
                   run_variants, calls, results, spawned, success, vres, config_file, error>>
    /\ UNCHANGED <<command_vars, swapchain_vars>>

\* filter_variants: template.variants(filters.placeholder_filters) on the
\* Template that Template::parse returned.
call_variants_parsed ==
    /\ pc = "parsed"
    /\ parsed.tag = "Ok"
    /\ vres' = variants(parsed.template[1], filter)
    /\ pc' = "returned"
    /\ UNCHANGED <<filter, clean, execute, out, env, fs, files, written, out_base, templates, filters,
                   run_variants, calls, results, spawned, success, error>>
    /\ UNCHANGED <<parse_vars, command_vars, swapchain_vars>>

NextParse == call_parse \/ call_variants_parsed

SpecParse == InitParse /\ [][NextParse]_vars

\* ------------------------------------------- the command split on its own
\* The head of Generate::execute on a command string of --execute.
Commands == SeqUpTo(Chars, MaxCommand)

InitSplit ==
    /\ execute \in Commands
    /\ cmd = NoCommand
    /\ filter = <<>>
    /\ templates = <<>>
    /\ clean = FALSE
    /\ out = None
    /\ env = [CARGO_NAME |-> "user", CARGO_EMAIL |-> "user"]
    /\ fs = {}
    /\ files = {}
    /\ written = {}
    /\ out_base = <<>>
    /\ filters = FiltersDefault
    /\ run_variants = <<>>
    /\ calls = <<>>
    /\ results = <<>>
    /\ spawned = <<>>
    /\ success = TRUE
    /\ vres = NoResult
    /\ config_file = NoFile
    /\ parsed = NoTemplate
    /\ NoSwapchain
    /\ pc = "split"
    /\ error = NoError

\* let mut split = execute.split(" "); exec = split.next().unwrap();
\* args = split.collect()
call_split ==
    /\ pc = "split"
    /\ LET split_ == split(execute, " ", 1, <<>>, <<>>)
       IN cmd' = [exec |-> Head(split_), args |-> Tail(split_)]
    /\ pc' = "spawn"
    /\ UNCHANGED <<filter, clean, execute, out, env, fs, files, written, out_base, templates, filters,
                   run_variants, calls, results, spawned, success, vres, error>>
    /\ UNCHANGED <<parse_vars, swapchain_vars>>

NextSplit == call_split

SpecSplit == InitSplit /\ [][NextSplit]_vars

\* ------------------------------------- MySwapchainManager of the wgpu template
\* (src/generated/graphics/wgpu/cargo-gpu/mygraphics/src/wgpu_renderer/swapchain.rs)
RECREATE_ATTEMPTS == 10
\* PhysicalSize<u32> values of window.inner_size().
Sizes == {<<800, 600>>, <<1024, 768>>}
\* What surface.get_current_texture() returns: a texture, suboptimal or not, or a
\* SurfaceError.
Acquired == {"Ok", "Suboptimal", "Outdated", "Lost", "Timeout", "OutOfMemory"}

\* retries that takes a Timeout for a reason to go round again too.
retries_timeout(acquired) == acquired \in {"Outdated", "Lost", "Timeout"}

\* The arm Err(SurfaceError::Outdated | SurfaceError::Lost): the loop goes on.
retries(acquired) == acquired \in {"Outdated", "Lost"}
\* The arm Ok(surface_texture): `f` is called and render returns Ok(r).
presents(acquired) == acquired \in {"Ok", "Suboptimal"}
\* should_recreate after the match, having been cleared or found clear before it.
recreate_after(acquired) == acquired = "Suboptimal" \/ retries(acquired)

\* MySwapchainManager::new, and the event loop before the first frame.
InitSwapchain ==
    /\ active = <<>>
    /\ should_recreate = TRUE
    /\ window_size \in Sizes
    /\ renders = 0
    /\ attempts = <<>>
    /\ callbacks = 0
    /\ render_result = ""
    /\ pc = "idle"
    /\ filter = <<>>
    /\ templates = <<>>
    /\ clean = FALSE
    /\ execute = None
    /\ out = None
    /\ env = [CARGO_NAME |-> "user", CARGO_EMAIL |-> "user"]
    /\ fs = {}
    /\ files = {}
    /\ written = {}
    /\ out_base = <<>>
    /\ filters = FiltersDefault
    /\ run_variants = <<>>
    /\ calls = <<>>
    /\ results = <<>>
    /\ spawned = <<>>
    /\ success = TRUE
    /\ vres = NoResult
    /\ config_file = NoFile
    /\ parsed = NoTemplate
    /\ cmd = NoCommand
    /\ error = NoError

\* The window takes another size between two frames.
window_resized ==
    /\ pc = "idle"
    /\ renders < MaxRenders
    /\ \E size \in Sizes \ {window_size} : window_size' = size
    /\ UNCHANGED <<active, should_recreate, renders, attempts, callbacks, render_result,
                   pc>>
    /\ UNCHANGED <<filter, clean, execute, out, env, fs, files, written, out_base, templates, filters,
                   run_variants, calls, results, spawned, success, vres, error>>
    /\ UNCHANGED <<parse_vars, command_vars>>

\* MySwapchainManager::should_recreate, called by the event loop between frames.
call_should_recreate ==
    /\ pc = "idle"
    /\ renders < MaxRenders
    /\ should_recreate' = TRUE
    /\ UNCHANGED <<active, window_size, renders, attempts, callbacks, render_result, pc>>
    /\ UNCHANGED <<filter, clean, execute, out, env, fs, files, written, out_base, templates, filters,
                   run_variants, calls, results, spawned, success, vres, error>>
    /\ UNCHANGED <<parse_vars, command_vars>>

\* render, up to its loop: should_recreate is set when there is no active
\* configuration or its size is not the window's.
render_begin ==
    /\ pc = "idle"
    /\ renders < MaxRenders
    /\ renders' = renders + 1
    /\ should_recreate' =
           IF IsSome(active) /\ active[1].size = window_size THEN should_recreate ELSE TRUE
    /\ attempts' = <<>>
    /\ callbacks' = 0
    /\ render_result' = ""
    /\ pc' = "loop"
    /\ UNCHANGED <<active, window_size>>
    /\ UNCHANGED <<filter, clean, execute, out, env, fs, files, written, out_base, templates, filters,
                   run_variants, calls, results, spawned, success, vres, error>>
    /\ UNCHANGED <<parse_vars, command_vars>>

\* One turn of `for _ in 0..RECREATE_ATTEMPTS`: configure_surface when
\* should_recreate is set, which may fail, then get_current_texture and the match
\* on what it returns.
attempt ==
    /\ pc = "loop"
    /\ Len(attempts) < RECREATE_ATTEMPTS
    /\ \/ /\ should_recreate
          /\ should_recreate' = FALSE
          /\ attempts' = Append(attempts,
                 [recreate |-> TRUE, configured |-> FALSE, acquired |-> "None"])
          /\ render_result' = "Err configure_surface"
          /\ pc' = "idle"
          /\ UNCHANGED <<active, callbacks>>
       \/ \E acquired \in Acquired :
             /\ active' = IF should_recreate THEN Some([size |-> window_size]) ELSE active
             /\ attempts' = Append(attempts,
                    [recreate |-> should_recreate, configured |-> should_recreate,
                     acquired |-> acquired])
             /\ should_recreate' = recreate_after(acquired)
             /\ callbacks' = IF presents(acquired) THEN callbacks + 1 ELSE callbacks
             /\ render_result' = CASE presents(acquired) -> "Ok"
                                   [] retries(acquired) -> render_result
                                   [] OTHER -> "Err get_current_texture() failed"
             /\ pc' = IF retries(acquired) THEN "loop" ELSE "idle"
    /\ UNCHANGED <<window_size, renders>>
    /\ UNCHANGED <<filter, clean, execute, out, env, fs, files, written, out_base, templates, filters,
                   run_variants, calls, results, spawned, success, vres, error>>
    /\ UNCHANGED <<parse_vars, command_vars>>

\* render, after the loop: bail!("looped {RECREATE_ATTEMPTS} times ..")
looped ==
    /\ pc = "loop"
    /\ Len(attempts) >= RECREATE_ATTEMPTS
    /\ render_result' = "Err looped"
    /\ pc' = "idle"
    /\ UNCHANGED <<active, should_recreate, window_size, renders, attempts, callbacks>>
    /\ UNCHANGED <<filter, clean, execute, out, env, fs, files, written, out_base, templates, filters,
                   run_variants, calls, results, spawned, success, vres, error>>
    /\ UNCHANGED <<parse_vars, command_vars>>

NextSwapchain ==
    \/ window_resized
    \/ call_should_recreate
    \/ render_begin
    \/ attempt
    \/ looped

SpecSwapchain == InitSwapchain /\ [][NextSwapchain]_vars

\* ------------------------------------------------------------------ claims
\* The template of a direct call, and what the claims say of a template.
Choices(t, j) == t.placeholders[j].choices
Counts(t) == [j \in DOMAIN t.placeholders |-> Len(Choices(t, j))]
NonEmptyChoices(t) == \A j \in DOMAIN t.placeholders : Choices(t, j) # <<>>
UniqueChoices(t) ==
    \A j \in DOMAIN t.placeholders :
        \A a, b \in DOMAIN Choices(t, j) : Choices(t, j)[a] = Choices(t, j)[b] => a = b
\* The Template invariant of the data model.
TemplateInvariant(t) == NonEmptyChoices(t) /\ UniqueChoices(t)
\* No value is a choice of two placeholders of the template.
DisjointChoices(t) ==
    \A j, k \in DOMAIN t.placeholders :
        j # k => Range(Choices(t, j)) \cap Range(Choices(t, k)) = {}
\* Every assignment of one declared choice to each placeholder, in declaration order.
Combinations(t) ==
    {[j \in DOMAIN t.placeholders |-> Define(t.placeholders[j].key, g[j])] :
        g \in {h \in [DOMAIN t.placeholders ->
                         UNION {Range(Choices(t, j)) : j \in DOMAIN t.placeholders}] :
                  \A j \in DOMAIN t.placeholders : h[j] \in Range(Choices(t, j))}}
Occurrences(seq, x) == Cardinality({i \in DOMAIN seq : seq[i] = x})
Keys(variant) == [j \in DOMAIN variant |-> variant[j].key]
Returned == pc = "returned"

\* C1 -- Cartesian completeness: called with an empty filter on a template whose
\* placeholders each have at least one choice, unique within the placeholder,
\* Template::variants returns exactly c_1 * ... * c_n variants, and every
\* combination of one choice per placeholder is in the result exactly once.
C1_CartesianCompleteness ==
    (Returned /\ filter = <<>> /\ TemplateInvariant(templates[1])) =>
        /\ vres.tag = "Ok"
        /\ Len(vres.variants) = Product(Counts(templates[1]))
        /\ \A c \in Combinations(templates[1]) : Occurrences(vres.variants, c) = 1

C1_Witness ==
    /\ Returned /\ filter = <<>> /\ TemplateInvariant(templates[1])
    /\ Counts(templates[1]) = <<2, 2>>
    /\ Len(vres.variants) = 4

\* C2 -- Variant shape: whenever Template::variants returns Ok, the keys of the
\* Defines of every returned variant are the template's placeholder names in
\* declaration order, whatever the order of the filter tokens.
C2_VariantShape ==
    (Returned /\ vres.tag = "Ok") =>
        \A i \in DOMAIN vres.variants :
            Keys(vres.variants[i]) =
                [j \in DOMAIN templates[1].placeholders |-> templates[1].placeholders[j].key]

\* Two tokens given in the reverse of the declaration order of their placeholders.
C2_Witness ==
    /\ Returned /\ vres.tag = "Ok"
    /\ Len(templates[1].placeholders) = 2 /\ DisjointChoices(templates[1])
    /\ Len(filter) = 2
    /\ filter[1] \in Range(Choices(templates[1], 2))
    /\ filter[2] \in Range(Choices(templates[1], 1))
    /\ vres.variants = << <<Define("integration", filter[2]), Define("api", filter[1])>> >>

\* The filters of tests::variants_filter: the first i of the k choices of a placeholder.
IsPrefixFilter(t, j, i) ==
    /\ 1 <= i /\ i < Len(Choices(t, j))
    /\ filter = SubSeq(Choices(t, j), 1, i)
Unfiltered(t) == Len(variants(t, <<>>).variants)
Balanced(t) ==
    \A j \in DOMAIN t.placeholders : \A i \in 1..Len(Choices(t, j)) :
        IsPrefixFilter(t, j, i) =>
            /\ vres.tag = "Ok"
            /\ Unfiltered(t) % Len(Choices(t, j)) = 0
            /\ Len(vres.variants) = (Unfiltered(t) \div Len(Choices(t, j))) * i

\* C3 -- Balanced filtering: for every template that satisfies the Template
\* invariant, every placeholder p of k declared choices and every i with
\* 1 <= i < k, Template::variants called with the first i declared choices of p
\* as the only tokens returns exactly (N / k) * i variants, N the number returned
\* without a filter, and k divides N.
C3_BalancedFiltering ==
    (Returned /\ TemplateInvariant(templates[1])) => Balanced(templates[1])

\* The factor the claim gives placeholder j: the number of its declared choices that
\* some filter token equals, or all of them when no token equals one.
Matched(t, j) == {a \in DOMAIN Choices(t, j) : Choices(t, j)[a] \in Range(filter)}
Factor(t, j) ==
    IF Matched(t, j) = {} THEN Len(Choices(t, j)) ELSE Cardinality(Matched(t, j))

\* C4 -- Multiplicative independence: whenever the filter resolves, the number of
\* variants is the product of the placeholders' factors k_i <= c_i. Stated for the
\* templates that hold the Template invariant and share no value between
\* placeholders, where only the filter is left to decide the count.
C4_MultiplicativeIndependence ==
    (Returned /\ vres.tag = "Ok" /\ TemplateInvariant(templates[1])
        /\ DisjointChoices(templates[1])) =>
        Len(vres.variants) =
            Product([j \in DOMAIN templates[1].placeholders |-> Factor(templates[1], j)])

\* What the claims say of a discovery and of the raw filter tokens.
Names(ts) == {ts[i].name : i \in DOMAIN ts}
Vocabulary(t) == UNION {Range(Choices(t, j)) : j \in DOMAIN t.placeholders}
KnownAnywhere(token) ==
    \/ token \in Names(templates)
    \/ \E i \in DOMAIN templates : token \in Vocabulary(templates[i])
NameTokens == Range(filter) \cap Names(templates)
PlaceholderTokens == Range(filter) \ Names(templates)
InScope(t) == NameTokens = {} \/ t.name \in NameTokens
Resolves(t) == PlaceholderTokens \subseteq Vocabulary(t)
\* filter_variants has returned or panicked; it has returned Ok.
Filtered ==
    \/ pc \in {"generate", "execute", "wait", "panicked"}
    \/ pc = "done" /\ error.kind \notin {"io", "config"}
    \/ pc = "done" /\ error.kind = "io" /\ run_variants # <<>>
FilteredOk ==
    /\ Filtered /\ pc # "panicked"
    /\ error.kind \notin {"Unknown filter", "No templates exist?"}
\* filter_variants has just returned or panicked.
JustFiltered ==
    \/ pc = "generate" /\ calls = <<>>
    \/ pc = "panicked"
    \/ pc = "done" /\ error.kind \in {"Unknown filter", "No templates exist?"}

\* C5 -- Unknown filter detection: when the raw filter list holds a token that is
\* no discovered template's name and no choice of any placeholder of any
\* discovered template, filter_variants fails with the unknown-filter error and
\* the token the error names is such a token. Stated for a discovery that holds
\* at least one template.
C5_UnknownFilterDetection ==
    (Filtered /\ templates # <<>>
        /\ \E k \in DOMAIN filter : ~KnownAnywhere(filter[k])) =>
        /\ error.kind = "Unknown filter"
        /\ ~KnownAnywhere(error.token)

\* C6 -- Deferred filter resolution: when every placeholder-filter token is a
\* choice of at least one in-scope template, no unknown-filter error is raised.
C6_DeferredResolution ==
    (Filtered /\ \A token \in PlaceholderTokens :
                    \E i \in DOMAIN templates :
                        InScope(templates[i]) /\ token \in Vocabulary(templates[i])) =>
        error.kind # "Unknown filter"

\* C7 -- Template-name filter scoping, in the state filter_variants returns
\* to: when the filter holds names of discovered templates and no placeholder
\* token, filter_variants returns, with no panic and no filter error, exactly the
\* full variant sets of the named templates and no pair of any other template,
\* whatever the other templates declare; without a template name every
\* discovered template is in scope, so each one that resolves the tokens has its
\* pairs in the result.
C7_TemplateNameScoping ==
    /\ (JustFiltered /\ NameTokens # {} /\ PlaceholderTokens = {}) =>
          /\ pc # "panicked"
          /\ error.kind \notin {"Unknown filter", "No templates exist?"}
          /\ Range(run_variants) =
                UNION {{<<templates[i], c>> : c \in Combinations(templates[i])} :
                       i \in {k \in DOMAIN templates : templates[k].name \in NameTokens}}
    /\ (JustFiltered /\ FilteredOk /\ NameTokens = {}) =>
          \A i \in DOMAIN templates :
              Resolves(templates[i]) => \E k \in DOMAIN run_variants :
                                            run_variants[k][1] = templates[i]

\* C8 -- Empty-result error: when every filter token is a discovered template's
\* name or a choice of some discovered template, but no in-scope template
\* resolves all placeholder tokens, the run fails with the 'Nothing generated'
\* error.
C8_EmptyResultError ==
    (pc = "done" /\ Filtered /\ templates # <<>>
        /\ \A k \in DOMAIN filter : KnownAnywhere(filter[k])
        /\ ~\E i \in DOMAIN templates : InScope(templates[i]) /\ Resolves(templates[i])) =>
        error.kind = "Nothing generated, all variants filtered out"

\* C9 -- Filter classification is a partition: split_filter puts a raw token in
\* template_filters exactly when it is a discovered template's name and in
\* placeholder_filters otherwise, drops none and puts none in both.
C9_FilterPartition ==
    Filtered =>
        /\ filters.template_filters = {token \in Range(filter) : token \in Names(templates)}
        /\ filters.placeholder_filters =
               SelectSeq(filter, LAMBDA token : token \notin Names(templates))
        /\ filters.template_filters \cap Range(filters.placeholder_filters) = {}
        /\ filters.template_filters \cup Range(filters.placeholder_filters) = Range(filter)
        /\ filter = <<>> => filters = FiltersDefault

\* A template name, and a token that nothing declares.
C9_Witness ==
    /\ Filtered /\ Len(filter) = 2
    /\ filters.template_filters = {filter[2]}
    /\ filters.placeholder_filters = <<filter[1]>>
    /\ filter[1] = Unknown

\* C10 -- Output path: the destination of every materialization call is
\* output_base / template.name / v_1 / ... / v_n, one nesting level per
\* placeholder, v_j the value of the j-th Define of the variant, which is a
\* choice of the template's j-th placeholder.
C10_OutputPath ==
    /\ Len(calls) <= Len(run_variants)
    /\ \A i \in DOMAIN calls :
          LET template == run_variants[i][1]
              variant == run_variants[i][2]
              n == Len(template.placeholders)
          IN /\ Len(variant) = n
             /\ calls[i].destination =
                    OutDir \o <<template.name>> \o [j \in 1..n |-> variant[j].value]
             /\ \A j \in 1..n :
                    /\ variant[j].key = template.placeholders[j].key
                    /\ variant[j].value \in Range(Choices(template, j))

\* The position of a template in the discovery, and the pairs of one template.
TemplateIndex(t) == CHOOSE i \in DOMAIN templates : templates[i] = t
PairsOf(t) == SelectSeq(run_variants, LAMBDA pair : pair[1] = t)

\* C11 -- Fail-fast generation: the pairs are materialized one at a time, in
\* discovery order and, within a template, in the order of Template::variants;
\* when the materialization of a pair fails, in create_dir_all or in
\* cargo_generate::generate, the run has failed, no later pair has been
\* materialized and no command has been run in any directory.
C11_FailFastGeneration ==
    /\ Len(results) <= Len(calls) /\ Len(calls) <= Len(run_variants)
    /\ \A i \in DOMAIN calls :
          calls[i] = generate_args(join(OutDir, run_variants[i][1].name),
                                   run_variants[i][1], run_variants[i][2])
    /\ \A i \in DOMAIN results : results[i] = calls[i].destination
    /\ \A i, k \in DOMAIN run_variants :
          i < k => TemplateIndex(run_variants[i][1]) <= TemplateIndex(run_variants[k][1])
    /\ FilteredOk =>
          \A n \in DOMAIN templates :
              LET vs == variants(templates[n], filters.placeholder_filters).variants
              IN PairsOf(templates[n]) =
                     IF InScope(templates[n])
                     THEN [k \in DOMAIN vs |-> <<templates[n], vs[k]>>]
                     ELSE <<>>
    /\ error.kind = "cargo_generate" =>
          /\ pc = "done"
          /\ Len(calls) = Len(results) + 1
          /\ spawned = <<>>
    /\ error.kind # "cargo_generate" => Len(calls) = Len(results)
    /\ (error.kind = "io" /\ run_variants # <<>>) =>
          /\ pc = "done"
          /\ Len(results) < Len(run_variants)
          /\ LET destination ==
                     generate_args(join(OutDir, run_variants[Len(results) + 1][1].name),
                                   run_variants[Len(results) + 1][1],
                                   run_variants[Len(results) + 1][2]).destination
             IN \/ create_dir_all_fails(destination, files)
                \/ create_dir_all_may_fail(fs, destination, written)
          /\ spawned = <<>>

\* The second of three pairs fails, with a command to run and two templates.
C11_Witness ==
    /\ error.kind = "cargo_generate" /\ pc = "done"
    /\ execute = Command
    /\ Len(results) = 1 /\ Len(calls) = 2 /\ Len(run_variants) = 3
    /\ run_variants[1][1] # run_variants[3][1]
    /\ spawned = <<>>

\* Generate::execute was entered with a command and has returned; the error of a
\* command that could not be spawned or waited for; the commands that exited
\* non-zero.
ExecuteFailed == "Some processes spawned by --execute failed"
ExecuteReturned ==
    /\ pc = "done" /\ execute # None /\ results # <<>>
    /\ error.kind \in {"", "spawn", "Process spawning failed", ExecuteFailed}
SpawnFailed == error.kind \in {"spawn", "Process spawning failed"}
Failed == {i \in DOMAIN spawned : ~spawned[i].status}
Attempted == Len(spawned) + (IF SpawnFailed THEN 1 ELSE 0)

\* C12 -- Non-short-circuiting executor: with a command, Generate::execute has
\* attempted the command in every output directory when it returns, whether or
\* not an earlier command exited non-zero or could not be spawned, and it
\* returns an error if and only if some command exited non-zero or could not be
\* spawned. Stated for the discoveries whose templates hold the Template
\* invariant, where the output directories are pairwise distinct.
C12_NonShortCircuitingExecutor ==
    (ExecuteReturned /\ \A n \in DOMAIN templates : TemplateInvariant(templates[n])) =>
        /\ Attempted = Len(results)
        /\ error # NoError <=> (SpawnFailed \/ Failed # {})

\* The working directories of the commands that were run, in order.
WorkingDirs == [i \in DOMAIN spawned |-> spawned[i].current_dir]

\* C13 -- Once per directory: with a command, after a generation that succeeded
\* and an executor that spawned every command, the command has run exactly once
\* in each output directory of the run and in no other directory, for every
\* filter token list, lists that repeat a token included. Stated for the
\* discoveries whose templates hold the Template invariant.
C13_OncePerDirectory ==
    (ExecuteReturned /\ ~SpawnFailed
        /\ \A n \in DOMAIN templates : TemplateInvariant(templates[n])) =>
        /\ \A d \in Range(results) : Occurrences(WorkingDirs, d) = 1
        /\ Range(WorkingDirs) \subseteq Range(results)

\* A number as the text a message holds it in.
Digit == <<"0", "1", "2", "3", "4", "5", "6", "7", "8", "9">>
RECURSIVE Decimal(_)
Decimal(n) == IF n < 10 THEN Digit[n + 1] ELSE Decimal(n \div 10) \o Digit[(n % 10) + 1]

\* C14 -- Execution error carries a count: when commands exited non-zero, the
\* one error that Generate::execute returns holds, as the argument of its
\* message, the number of invocations that failed.
C14_ExecutionErrorCount ==
    (ExecuteReturned /\ ~SpawnFailed /\ Failed # {}) =>
        /\ error.kind = ExecuteFailed
        /\ error.token = Decimal(Cardinality(Failed))

\* Generate::run has returned Ok(()).
Succeeded == pc = "done" /\ error = NoError

\* C15 -- No silent empty success: when Generate::run returns Ok it has
\* materialized at least one output directory, and when the discovery holds no
\* template the run ends in an error, with an empty and with a non-empty filter.
C15_NoSilentEmptySuccess ==
    /\ Succeeded =>
          /\ results # <<>> /\ Len(calls) = Len(results)
          /\ Range(results) \subseteq fs
    /\ (Filtered /\ templates = <<>>) =>
          /\ pc = "done" /\ error # NoError
          /\ calls = <<>> /\ spawned = <<>>

\* No template was discovered and the command line holds filter tokens.
C15_Witness ==
    /\ pc = "done" /\ Filtered /\ templates = <<>>
    /\ Len(filter) = 2
    /\ error.kind = "No templates exist?"

\* C16 -- All failures are terminal and nothing is retried: Generate::run returns
\* Ok only after out_base_dir, the discovery and filter_variants succeeded,
\* every pair was generated and, with a command, every command was spawned and
\* exited zero; an error ends the run; and every pair is handed to
\* cargo_generate, and every output directory entry to the command, at most
\* once, a failed call being the last one of the run.
C16_FailuresTerminal ==
    /\ Succeeded =>
          /\ out_base = OutDir /\ templates # <<>>
          /\ filter_variants(templates, filter).tag = "Ok"
          /\ run_variants = filter_variants(templates, filter).variants
          /\ Len(calls) = Len(run_variants) /\ Len(results) = Len(run_variants)
          /\ execute # None => (Len(spawned) = Len(results) /\ Failed = {})
    /\ error # NoError => pc = "done"
    /\ success <=> Failed = {}
    /\ Len(calls) <= Len(run_variants) /\ Len(calls) <= Len(results) + 1
    /\ Len(spawned) <= Len(results)
    /\ \A i \in DOMAIN spawned : spawned[i].current_dir = results[i]
    /\ Failed # {} => (pc \in {"execute", "wait"} \/ (pc = "done" /\ error # NoError))

\* The command exited non-zero in the first of two directories and zero in the
\* second: each was run once and the run failed.
C16_Witness ==
    /\ pc = "done" /\ error.kind = ExecuteFailed
    /\ Len(results) = 2 /\ results[1] # results[2]
    /\ Len(spawned) = 2 /\ ~spawned[1].status /\ spawned[2].status

\* The directories at and under the destination root that this run has made:
\* the root and the output directories with the directories on the way to them.
Materialized ==
    LET under == {i \in DOMAIN results : IsUnder(results[i], OutDir)}
    IN {OutDir} \cup UNION {Prefixes(results[i], Len(OutDir) + 1) : i \in under}

\* C17 -- --clean: with the clean flag the destination root is deleted before the
\* discovery and before any pair is generated, so after a run that succeeded
\* the root holds the directories of this run only; and the run gets past
\* out_base_dir whether or not the root existed before.
C17_Clean ==
    clean =>
        /\ Succeeded =>
              /\ {d \in fs : IsUnder(d, OutDir)} = Materialized
              /\ {d \in written : IsUnder(d, OutDir)} \subseteq Range(results)
        /\ (pc \notin {"normalize_env", "out_base_dir"} /\ templates = <<>> /\ calls = <<>>) =>
              join(OutDir, "stale") \notin fs
        /\ error.kind = "io" => run_variants # <<>>

\* The descriptor of a direct call of Template::parse: the entries of its
\* `placeholders` table, and the `choices` arrays that the entries hold.
Parsed == pc = "parsed"
HasPlaceholders == config_file.read = "Ok" /\ IsSome(config_file.config.placeholders)
Entries == IF HasPlaceholders THEN config_file.config.placeholders[1] ELSE <<>>
ChoicesKeys(j) ==
    {e \in DOMAIN Entries[j].value.table : Entries[j].value.table[e].key = "choices"}
HasChoicesArray(j) ==
    /\ Entries[j].value.type = "Table"
    /\ \E e \in ChoicesKeys(j) : Entries[j].value.table[e].value.type = "Array"
ChoicesArray(j) ==
    Entries[j].value.table[CHOOSE e \in ChoicesKeys(j) : TRUE].value.array
AllStrings(items) == \A a \in DOMAIN items : items[a].type = "String"
Malformed ==
    \/ ~HasPlaceholders
    \/ \E j \in DOMAIN Entries : ~HasChoicesArray(j) \/ ~AllStrings(ChoicesArray(j))

\* C18 -- Descriptor loader rejects bad choices: Template::parse returns an error
\* when the descriptor has no `placeholders` section, or a placeholder has no
\* `choices` key, or its `choices` is no array, or the array holds an entry that
\* is no string, or the array is empty; so every Template it returns has at
\* least one choice for every placeholder.
C18_LoaderRejectsBadChoices ==
    Parsed =>
        /\ (Malformed \/ \E j \in DOMAIN Entries : ChoicesArray(j) = <<>>) => parsed.tag = "Err"
        /\ parsed.tag = "Ok" => NonEmptyChoices(parsed.template[1])

\* C19 -- Duplicate choices are a configuration error: Template::parse returns an
\* error for a descriptor in which a string occurs twice in the `choices` of
\* one placeholder, so the choices of every placeholder of a Template it
\* returns are pairwise distinct. Stated for the descriptors that are otherwise
\* well-formed, with no empty `choices`.
C19_DuplicateChoicesRejected ==
    (Parsed /\ ~Malformed /\ \A j \in DOMAIN Entries : ChoicesArray(j) # <<>>) =>
        /\ (\E j \in DOMAIN Entries : \E a, b \in DOMAIN ChoicesArray(j) :
                a # b /\ ChoicesArray(j)[a] = ChoicesArray(j)[b]) => parsed.tag = "Err"
        /\ parsed.tag = "Ok" => UniqueChoices(parsed.template[1])

\* C20 -- Materialization arguments: every call of cargo_generate::generate is
\* given the source directory of the pair's template, overwrite = true, and as
\* its define list one `key=value` string per placeholder of the template, in
\* declaration order, with the value of the variant's Define for that key.
C20_MaterializationArguments ==
    /\ Len(calls) <= Len(run_variants)
    /\ \A i \in DOMAIN calls :
          LET template == run_variants[i][1]
              variant == run_variants[i][2]
          IN /\ calls[i].template_path = <<"TEMPLATE_PATH", template.name>>
             /\ template \in Range(templates)
             /\ calls[i].overwrite
             /\ DOMAIN calls[i].define = DOMAIN template.placeholders
             /\ DOMAIN variant = DOMAIN template.placeholders
             /\ \A j \in DOMAIN template.placeholders :
                    /\ variant[j].key = template.placeholders[j].key
                    /\ calls[i].define[j] = variant[j].key \o "=" \o variant[j].value

\* The call for the variant integration=ash, api=wgpu of the second template.
C20_Witness ==
    \E i \in DOMAIN calls :
        /\ calls[i].define = <<"integration=ash", "api=wgpu">>
        /\ calls[i].template_path = <<"TEMPLATE_PATH", "ash-graphics">>
        /\ calls[i].overwrite
        /\ i \in DOMAIN results

\* Both variables hold the value that normalize_env gives them.
Normalized == env.CARGO_NAME = "generated" /\ env.CARGO_EMAIL = "generated"

\* C21 -- Environment normalization precedes generation: CARGO_NAME and
\* CARGO_EMAIL hold their normalized value in the state every call of
\* cargo_generate::generate starts in and in every state after one, so from
\* before the first call to the end of the run.
C21_EnvironmentNormalized ==
    /\ pc = "generate" => Normalized
    /\ calls # <<>> => Normalized
    /\ pc # "normalize_env" => Normalized

\* Two calls have been made, the second is over.
C21_Witness ==
    /\ Len(calls) = 2 /\ Len(results) = 2
    /\ Normalized
    /\ pc = "generate"

\* C22 -- Stage ordering: the stages of a run do not overlap. When the first
\* call of cargo_generate::generate is made, split_filter and the variants of
\* every template are computed and stay as they are; a call is over before the
\* next is made; and when the first command is spawned every pair has been
\* generated.
C22_StageOrdering ==
    /\ calls # <<>> =>
          /\ pc \in {"generate", "execute", "wait", "done"}
          /\ filters = split_filter(templates, filter, FiltersDefault)
          /\ run_variants = filter_variants(templates, filter).variants
    /\ Len(results) <= Len(calls) /\ Len(calls) <= Len(results) + 1
    /\ Len(calls) = Len(results) + 1 => pc = "done"
    /\ (pc \in {"execute", "wait"} \/ spawned # <<>>) =>
          /\ Len(calls) = Len(run_variants)
          /\ Len(results) = Len(run_variants)
    /\ pc \in {"normalize_env", "out_base_dir", "discover", "filter_variants"} =>
          calls = <<>> /\ spawned = <<>>

\* The first command has been spawned after two pairs were generated.
C22_Witness ==
    /\ pc = "execute" /\ Len(spawned) = 1
    /\ Len(run_variants) = 2 /\ Len(calls) = 2 /\ Len(results) = 2

\* The value lists that Template::variants crosses, one per placeholder, for the
\* template and the tokens of a direct call; and the list the claim gives
\* placeholder j: its declared choices that some token equals, in declared order.
ValueLists ==
    LET pushed == push_filter(templates[1], filter,
                              [j \in DOMAIN templates[1].placeholders |-> <<>>])
    IN [j \in DOMAIN templates[1].placeholders |->
           candidate_values(templates[1], pushed.map, j)]
MatchedChoices(j) ==
    SelectSeq(Choices(templates[1], j), LAMBDA c : c \in Range(filter))
NoRepeatedToken == \A a, b \in DOMAIN filter : filter[a] = filter[b] => a = b

\* C23 -- Candidate lists: in Template::variants the values a placeholder takes
\* are its declared choices that equal some filter token, in the order of its
\* declared choices and not of the filter, when a token equals one of them, and
\* all its declared choices otherwise. Stated for the calls that return Ok on a
\* template that holds the Template invariant and shares no value between
\* placeholders, with a filter that repeats no token.
C23_CandidateLists ==
    (Returned /\ vres.tag = "Ok" /\ TemplateInvariant(templates[1])
        /\ DisjointChoices(templates[1]) /\ NoRepeatedToken) =>
        \A j \in DOMAIN templates[1].placeholders :
            ValueLists[j] = IF MatchedChoices(j) # <<>> THEN MatchedChoices(j)
                            ELSE Choices(templates[1], j)

\* The command has been split; the pieces joined again by single spaces; a
\* command with no space in front, at the end or next to another space.
Split == pc = "spawn"
RECURSIVE Joined(_)
Joined(pieces) ==
    IF Len(pieces) = 1 THEN pieces[1]
    ELSE pieces[1] \o <<" ">> \o Joined(Tail(pieces))
NoStraySpace ==
    /\ execute # <<>> /\ execute[1] # " " /\ execute[Len(execute)] # " "
    /\ \A i \in 1..(Len(execute) - 1) : ~(execute[i] = " " /\ execute[i + 1] = " ")

\* C24 as claimed -- Command splitting: for every command string the program is
\* non-empty when the string holds a character that is no space, and no
\* argument is the empty string.
C24_Original ==
    Split =>
        /\ (\E i \in DOMAIN execute : execute[i] # " ") => cmd.exec # <<>>
        /\ \A a \in DOMAIN cmd.args : cmd.args[a] # <<>>

\* C24 as amended -- the command string is split at every space character, with
\* no quoting and no merging of spaces: the program and the arguments joined by
\* single spaces are the command string and none holds a space; and the
\* program is non-empty and no argument is the empty string for every
\* non-empty command that has no space in front, at the end or next to another.
C24_CommandSplitting ==
    Split =>
        /\ Joined(<<cmd.exec>> \o cmd.args) = execute
        /\ " " \notin Range(cmd.exec)
        /\ \A a \in DOMAIN cmd.args : " " \notin Range(cmd.args[a])
        /\ NoStraySpace =>
              /\ cmd.exec # <<>>
              /\ \A a \in DOMAIN cmd.args : cmd.args[a] # <<>>

\* A program and one argument that holds a tab.
C24_Witness ==
    /\ Split /\ NoStraySpace
    /\ cmd.exec = <<"c">>
    /\ cmd.args = << <<"c", "\t">> >>

Distinct(seq) == \A a, b \in DOMAIN seq : seq[a] = seq[b] => a = b

\* C25 -- No duplicate work: for every filter token list that filter_variants
\* accepts, lists that repeat a token included, the (template, variant) pairs it
\* returns are pairwise distinct, and so are the directories that the run
\* generates. Stated for the discoveries whose templates hold the Template
\* invariant (the sub-template names are distinct in every discovery).
C25_NoDuplicateWork ==
    (FilteredOk /\ \A n \in DOMAIN templates : TemplateInvariant(templates[n])) =>
        /\ Distinct(run_variants)
        /\ Distinct([i \in DOMAIN calls |-> calls[i].destination])

\* C26 -- Resolution failures happen before any output is produced: when the
\* run's error is the unknown-filter error or the 'No templates exist?' error,
\* cargo_generate::generate was never called, no directory of a pair was
\* created and no command was spawned.
C26_ResolutionFailsBeforeOutput ==
    error.kind \in {"Unknown filter", "No templates exist?"} =>
        /\ pc = "done"
        /\ calls = <<>> /\ results = <<>> /\ spawned = <<>>
        /\ fs \subseteq {OutDir} \cup UNION {root.dirs : root \in Roots}
        /\ written \subseteq UNION {root.written : root \in Roots}

\* A run with a command, whose filter names a template and holds a token that
\* the template does not declare.
C26_Witness ==
    /\ pc = "done" /\ error.kind = "Unknown filter"
    /\ execute = Command
    /\ Len(filter) = 2 /\ filter[1] \in Names(templates)
    /\ \E n \in DOMAIN templates : Vocabulary(templates[n]) # {}
    /\ calls = <<>> /\ OutDir \in fs

\* C27 -- Successful resolution is never empty: when filter_variants returns Ok
\* the list holds at least one pair and is made of all the variants of the
\* in-scope templates that resolve every placeholder token, of those only; so
\* run never fails with the 'Nothing generated' error.
C27_ResolutionNeverEmpty ==
    /\ FilteredOk => run_variants # <<>>
    /\ (JustFiltered /\ FilteredOk) =>
          /\ \E n \in DOMAIN templates : InScope(templates[n]) /\ Resolves(templates[n])
          /\ \A n \in DOMAIN templates :
                LET vs == variants(templates[n], filters.placeholder_filters).variants
                IN PairsOf(templates[n]) =
                       IF InScope(templates[n]) /\ Resolves(templates[n])
                       THEN [k \in DOMAIN vs |-> <<templates[n], vs[k]>>]
                       ELSE <<>>
          /\ \A k \in DOMAIN run_variants : run_variants[k][1] \in Range(templates)
    /\ error.kind # "Nothing generated, all variants filtered out"

\* Of two templates that declare choices, the token is a choice of the second only.
C27_Witness ==
    /\ FilteredOk /\ Len(templates) = 2 /\ Len(filter) = 1
    /\ Vocabulary(templates[1]) # {}
    /\ ~Resolves(templates[1]) /\ Resolves(templates[2])
    /\ run_variants # <<>>
    /\ \A k \in DOMAIN run_variants : run_variants[k][1] = templates[2]

\* C28 -- Assertion validity: for every Template that Template::parse returns
\* and every filter token list, `assert!(!values.is_empty())` holds in
\* Template::variants: the call returns and does not panic.
C28_AssertionValid ==
    (Returned /\ parsed.tag = "Ok") => vres.tag # "Panic"

\* The token lists that are the filter with its tokens in another order.
Permutations(f) ==
    {[i \in DOMAIN f |-> f[g[i]]] :
        g \in {h \in [DOMAIN f -> DOMAIN f] : \A a, b \in DOMAIN f : h[a] = h[b] => a = b}}
\* C29 -- Filter order independence: for the discovered templates and every
\* token list that is a permutation of the filter, filter_variants fails when it
\* failed on the filter, and returns the same set of (template, variant) pairs
\* when it returned Ok on the filter.
C29_FilterOrderIndependence ==
    JustFiltered =>
        \A g \in Permutations(filter) :
            LET r == filter_variants(templates, g)
            IN /\ r.tag = "Panic" <=> pc = "panicked"
               /\ r.tag = "Err" <=> pc = "done"
               /\ r.tag = "Ok" <=> pc = "generate"
               /\ r.tag = "Ok" => Range(r.variants) = Range(run_variants)
               /\ r.tag = "Err" => r.error = error.kind

\* Two tokens that are choices of one placeholder, which has them in the other order.
C29_Witness ==
    /\ JustFiltered /\ pc = "generate"
    /\ Len(filter) = 2 /\ filter[1] # filter[2]
    /\ Len(templates) = 1 /\ Len(templates[1].placeholders) = 1
    /\ Choices(templates[1], 1) = <<filter[2], filter[1]>>
    /\ Len(run_variants) = 2

\* The turns of the call under way that reached get_current_texture.
Acquires == SelectSeq(attempts, LAMBDA a : a.acquired # "None")
RenderReturned == pc = "idle" /\ renders > 0

\* C30 -- Bounded swapchain retry: a call of MySwapchainManager::render makes at
\* most RECREATE_ATTEMPTS attempts to acquire the surface texture; it configures
\* the surface before an attempt exactly when should_recreate is set, which it is
\* on the first call and when the window's size is not that of the active
\* configuration; it goes round again only after Outdated or Lost, fails at once
\* on another error and fails after RECREATE_ATTEMPTS times Outdated or Lost;
\* and `f` is called once when render returns Ok and never when it returns Err.
C30_BoundedSwapchainRetry ==
    /\ Len(attempts) <= RECREATE_ATTEMPTS /\ Len(Acquires) <= RECREATE_ATTEMPTS
    /\ \A i \in DOMAIN attempts :
          /\ attempts[i].acquired # "None" => (attempts[i].configured <=> attempts[i].recreate)
          /\ attempts[i].configured => attempts[i].recreate
          /\ i < Len(attempts) => attempts[i].acquired \in {"Outdated", "Lost"}
          /\ i > 1 => attempts[i].recreate
    /\ (pc = "loop" /\ attempts = <<>>) =>
          ((renders = 1 \/ ~IsSome(active) \/ active[1].size # window_size) => should_recreate)
    /\ (pc = "loop" /\ attempts # <<>>) =>
          attempts[Len(attempts)].acquired \in {"Outdated", "Lost"}
    /\ pc = "loop" => callbacks = 0 /\ render_result = ""
    /\ (RenderReturned /\ attempts # <<>>) =>
          LET last == attempts[Len(attempts)].acquired
          IN /\ last \in {"Ok", "Suboptimal"} <=> render_result = "Ok"
             /\ last \in {"Timeout", "OutOfMemory"} <=>
                    render_result = "Err get_current_texture() failed"
             /\ last = "None" <=> render_result = "Err configure_surface"
             /\ last \in {"Outdated", "Lost"} <=> render_result = "Err looped"
             /\ render_result = "Err looped" => Len(Acquires) = RECREATE_ATTEMPTS
             /\ callbacks = IF render_result = "Ok" THEN 1 ELSE 0

\* The second call of render has failed after RECREATE_ATTEMPTS attempts, the
\* first of them without configuring the surface.
C30_Witness ==
    /\ RenderReturned /\ renders = 2
    /\ render_result = "Err looped"
    /\ Len(Acquires) = RECREATE_ATTEMPTS
    /\ ~attempts[1].configured /\ attempts[2].configured
    /\ callbacks = 0

====
